---- MODULE Spec2Model ----
(***************************************************************************)
(* A model of src/core-js-dates-tasks.js: a library of date functions.     *)
(*                                                                         *)
(* A JavaScript Date is modelled by its time value, kept as the pair       *)
(* [day |-> days since 1970-01-01, ms |-> milliseconds into that day]      *)
(* (the time value itself, day * 86400000 + ms, does not fit the model     *)
(* checker's integers).  The local time zone of the platform is taken to   *)
(* be a zone with no offset from UTC and no daylight saving changes, so    *)
(* the local and the UTC accessors of Date agree.                          *)
(*                                                                         *)
(* A string is modelled as the sequence of its characters.                 *)
(***************************************************************************)
EXTENDS Integers, Sequences, FiniteSets

\* ---------------------------------------------------------------- bounds
FirstYear == 2000
NumYears == 28
MaxSpan == 8
MaxCount == 3
MaxIter == 24
MaxAdvance == 20

Years == FirstYear .. (FirstYear + NumYears - 1)

\* ------------------------------------------------- the platform's Date
millisecondsInDay == 24 * 60 * 60 * 1000
msPerHour == 60 * 60 * 1000
msPerMinute == 60 * 1000

\* Day number of year-month-date (month 1..12), proleptic Gregorian calendar.
DaysFromCivil(y, m, d) ==
  LET yy  == IF m <= 2 THEN y - 1 ELSE y
      era == yy \div 400
      yoe == yy - era * 400
      mp  == (m + 9) % 12
      doy == (153 * mp + 2) \div 5 + d - 1
      doe == yoe * 365 + yoe \div 4 - yoe \div 100 + doy
  IN  era * 146097 + doe - 719468

\* The [year, month (0..11), date] of a day number.
CivilFromDays(z) ==
  LET zz  == z + 719468
      era == zz \div 146097
      doe == zz - era * 146097
      yoe == (doe - doe \div 1460 + doe \div 36524 - doe \div 146096) \div 365
      doy == doe - (365 * yoe + yoe \div 4 - yoe \div 100)
      mp  == (5 * doy + 2) \div 153
      d   == doy - (153 * mp + 2) \div 5 + 1
      m   == IF mp < 10 THEN mp + 3 ELSE mp - 9
      y   == yoe + era * 400
  IN  [year |-> IF m <= 2 THEN y + 1 ELSE y, month |-> m - 1, date |-> d]

\* ECMAScript MakeDay: month is 0-based and may lie outside 0..11, date may
\* lie outside the month; both carry over into the neighbouring months/years.
MakeDay(year, month, date) ==
  DaysFromCivil(year + (month \div 12), (month % 12) + 1, 1) + date - 1

\* new Date(year, monthIndex, date): local midnight of that day.
NewDate(year, month, date) == [day |-> MakeDay(year, month, date), ms |-> 0]

getFullYear(t) == CivilFromDays(t.day).year
getMonth(t) == CivilFromDays(t.day).month
getDate(t) == CivilFromDays(t.day).date
\* 0 = Sunday .. 6 = Saturday; day 0 (1970-01-01) is a Thursday.
getDay(t) == (t.day + 4) % 7
getHours(t) == t.ms \div msPerHour
getMinutes(t) == (t.ms % msPerHour) \div msPerMinute
getSeconds(t) == (t.ms % msPerMinute) \div 1000

\* Date.prototype.setMonth / setDate: the other local fields are kept and the
\* result is renormalised, so an out-of-range date rolls into the next month.
setMonth(t, month) ==
  [t EXCEPT !.day = MakeDay(getFullYear(t), month, getDate(t))]
setDate(t, date) ==
  [t EXCEPT !.day = MakeDay(getFullYear(t), getMonth(t), date)]

\* time value + delta milliseconds.
AddMs(t, delta) ==
  LET total == t.ms + delta
  IN  [day |-> t.day + (total \div millisecondsInDay),
       ms  |-> total % millisecondsInDay]

\* a <= b on time values.
TimeLE(a, b) == a.day < b.day \/ (a.day = b.day /\ a.ms <= b.ms)

\* ------------------------------------------------------------- strings
Digits == <<"0", "1", "2", "3", "4", "5", "6", "7", "8", "9">>

\* String(n) for an integer n >= 0.
RECURSIVE NumToStr(_)
NumToStr(n) ==
  IF n < 10 THEN <<Digits[n + 1]>>
  ELSE NumToStr(n \div 10) \o <<Digits[(n % 10) + 1]>>

DigitValue(c) == CHOOSE i \in 0..9 : Digits[i + 1] = c

\* Number(s) for a string of decimal digits.
RECURSIVE ToNumber(_)
ToNumber(s) ==
  IF Len(s) = 0 THEN 0
  ELSE 10 * ToNumber(SubSeq(s, 1, Len(s) - 1)) + DigitValue(s[Len(s)])

\* s.split(sep) for a one-character separator.
RECURSIVE split(_, _)
split(s, sep) ==
  IF \A i \in 1..Len(s) : s[i] # sep THEN <<s>>
  ELSE LET k == CHOOSE i \in 1..Len(s) :
                  s[i] = sep /\ \A j \in 1..(i - 1) : s[j] # sep
       IN  <<SubSeq(s, 1, k - 1)>> \o split(SubSeq(s, k + 1, Len(s)), sep)

\* ------------------------------------------- the library's pure functions
\* `${n}` padded with a leading zero when n < 10.
Pad2(n) == IF n >= 10 THEN NumToStr(n) ELSE <<"0">> \o NumToStr(n)

getTime(d) ==
  LET hour == Pad2(getHours(d))
      min  == Pad2(getMinutes(d))
      sec  == Pad2(getSeconds(d))
  IN  hour \o <<":">> \o min \o <<":">> \o sec

getNextFriday_SaturdayAsWeekday(d) ==
  LET dateDay == getDay(d)
  IN  IF dateDay = 5 THEN AddMs(d, 7 * millisecondsInDay)
      ELSE IF dateDay <= 6 THEN AddMs(d, (5 - dateDay) * millisecondsInDay)
      ELSE AddMs(d, 6 * millisecondsInDay)

getNextFriday(d) ==
  LET dateDay == getDay(d)
  IN  IF dateDay = 5 THEN AddMs(d, 7 * millisecondsInDay)
      ELSE IF dateDay < 5 THEN AddMs(d, (5 - dateDay) * millisecondsInDay)
      ELSE AddMs(d, 6 * millisecondsInDay)

\* The fields of the template `${month}/${day}/${year}, ${hour}:${min}:${sec} ${option}`.
formatDate(d) ==
  LET h      == getHours(d)
      hour   == IF h >= 12 /\ h > 12 THEN h - 12 ELSE h
      option == IF h >= 12 THEN <<"P", "M">> ELSE <<"A", "M">>
      min    == IF getMinutes(d) < 10 THEN <<"0">> \o NumToStr(getMinutes(d))
                ELSE NumToStr(getMinutes(d))
      sec    == IF getSeconds(d) < 10 THEN <<"0">> \o NumToStr(getSeconds(d))
                ELSE NumToStr(getSeconds(d))
  IN  [month  |-> NumToStr(getMonth(d) + 1),
       day    |-> NumToStr(getDate(d)),
       year   |-> NumToStr(getFullYear(d)),
       hour   |-> NumToStr(hour),
       min    |-> min,
       sec    |-> sec,
       option |-> option]

getCountWeekendsInMonth_NoTrailingSaturday(m, y) ==
  LET day0       == getDay(NewDate(y, m - 1, 1))
      day        == IF day0 = 0 THEN 7 ELSE day0
      nextMonth  == NewDate(y, m, 1)
      countDays  == IF m = 12 THEN 31
                    ELSE getDate(setDate(nextMonth, getDate(nextMonth) - 1))
      count0     == (IF day <= 6 THEN 2 ELSE 0) + (IF day = 7 THEN 1 ELSE 0)
      remainDay0 == countDays - (7 - day + 1)
      fullWeekend == remainDay0 \div 7
  IN  count0 + fullWeekend * 2

getCountWeekendsInMonth(m, y) ==
  LET day0       == getDay(NewDate(y, m - 1, 1))
      day        == IF day0 = 0 THEN 7 ELSE day0
      nextMonth  == NewDate(y, m, 1)
      countDays  == IF m = 12 THEN 31
                    ELSE getDate(setDate(nextMonth, getDate(nextMonth) - 1))
      count0     == (IF day <= 6 THEN 2 ELSE 0) + (IF day = 7 THEN 1 ELSE 0)
      remainDay0 == countDays - (7 - day + 1)
      fullWeekend == remainDay0 \div 7
      count1     == count0 + fullWeekend * 2
      remainDay  == remainDay0 - fullWeekend * 7
  IN  IF remainDay = 6 THEN count1 + 1 ELSE count1

\* countDays is 1 + whole + frac/millisecondsInDay with 0 <= frac < one day,
\* so Math.floor(remainDay / 7) is the floor of the whole part over 7 and
\* remainDay % 7 is zero only for a whole multiple of 7.
getWeekNumberByDate(d) ==
  LET y           == getFullYear(d)
      firstDay0   == getDay(NewDate(y, 0, 1))
      firstDay    == IF firstDay0 = 0 THEN 7 ELSE firstDay0
      whole       == 1 + (d.day - NewDate(y, 0, 1).day)
      frac        == d.ms
      count0      == IF firstDay <= 4 THEN 1 ELSE 0
      remainWhole == whole - (7 - firstDay + 1)
      fullWeekend == remainWhole \div 7
      count1      == count0 + fullWeekend
  IN  IF ~(remainWhole % 7 = 0 /\ frac = 0) THEN count1 + 1 ELSE count1

getQuarter(d) ==
  IF getMonth(d) < 3 THEN 1
  ELSE IF getMonth(d) < 6 THEN 2
  ELSE IF getMonth(d) < 9 THEN 3
  ELSE 4

isLeapYear(d) ==
  LET y == getFullYear(d)
  IN  IF y % 400 = 0 THEN TRUE
      ELSE IF y % 4 = 0 /\ y % 100 # 0 THEN TRUE
      ELSE FALSE

\* new Date(text.split('-')[2], text.split('-')[1] - 1, text.split('-')[0])
ParsePeriodDate(text) ==
  NewDate(ToNumber(split(text, "-")[3]),
          ToNumber(split(text, "-")[2]) - 1,
          ToNumber(split(text, "-")[1]))

\* The string pushed by the schedule loop for the time value s.
ScheduleEntry(s) ==
  LET startDateDate  == IF getDate(s) < 10 THEN <<"0">> \o NumToStr(getDate(s))
                        ELSE NumToStr(getDate(s))
      startDateMonth == IF getMonth(s) < 9 THEN <<"0">> \o NumToStr(getMonth(s) + 1)
                        ELSE NumToStr(getMonth(s) + 1)
  IN  startDateDate \o <<"-">> \o startDateMonth \o <<"-">> \o NumToStr(getFullYear(s))

\* ------------------------------------------------------------- inputs
Days == MakeDay(FirstYear, 0, 1) .. MakeDay(FirstYear + NumYears, 0, 0)
TimesOfDay == {0, 9 * msPerHour + 5 * msPerMinute + 7 * 1000}
DateInputs == {[day |-> d, ms |-> m] : d \in Days, m \in TimesOfDay}

\* Parsed values of the ISO texts given to formatDate: every hour of the day.
TextInputs ==
  {[day |-> MakeDay(FirstYear, mo, 1 + mo), ms |-> h * msPerHour + r] :
     mo \in 0..11, h \in 0..23, r \in {0, 59 * msPerMinute + 30 * 1000}}

\* 'DD-MM-YYYY' of a day number.
DMYText(dayNo) ==
  LET c == CivilFromDays(dayNo)
  IN  Pad2(c.date) \o <<"-">> \o Pad2(c.month + 1) \o <<"-">> \o NumToStr(c.year)

\* Period starts near the end of February, September and December.
PeriodStarts ==
  {MakeDay(FirstYear, mo, dt) : mo \in {1, 8, 11}, dt \in 25..28}
Counts == (0 - 1) .. MaxCount
PeriodInputs ==
  {[start |-> DMYText(s), end |-> DMYText(s + n)] :
     s \in PeriodStarts, n \in (0 - 1) .. MaxSpan}

NoDate == [day |-> 0, ms |-> 0]
NoPeriod == [start |-> <<>>, end |-> <<>>]

\* -------------------------------------------------------------- state
VARIABLES
  kind,           \* which arguments the caller holds: "date", "text", "month", "period"
  date,           \* the caller's Date object ("text": new Date(text) inside formatDate)
  month, year,    \* number arguments
  period, countWorkDays, countOffDays,   \* getWorkSchedule's arguments
  pc,             \* "idle", or the loop a call is in
  op,             \* the function called last
  result,         \* its return value
  thrown,         \* the error it threw, "none" when it threw nothing
  arg0,           \* the time value of the Date argument when the call began
  resultIsArg,    \* the returned Date is the argument object itself
  advances,       \* iterations of getNextFridayThe13th's loop in this call
  start, end, count, arr,   \* getWorkSchedule's locals
  iters           \* iterations of getWorkSchedule's loop in this call

vars == <<kind, date, month, year, period, countWorkDays, countOffDays, pc, op,
          result, thrown, arg0, resultIsArg, advances, start, end, count, arr, iters>>

inputs == <<kind, month, year, period, countWorkDays, countOffDays>>
scheduleLocals == <<start, end, count, arr, iters>>

Init ==
  /\ \/ /\ kind = "date" /\ date \in DateInputs
        /\ month = 0 /\ year = 0
        /\ period = NoPeriod /\ countWorkDays = 0 /\ countOffDays = 0
     \/ /\ kind = "text" /\ date \in TextInputs
        /\ month = 0 /\ year = 0
        /\ period = NoPeriod /\ countWorkDays = 0 /\ countOffDays = 0
     \/ /\ kind = "month" /\ date = NoDate
        /\ month \in 1..12 /\ year \in Years
        /\ period = NoPeriod /\ countWorkDays = 0 /\ countOffDays = 0
     \/ /\ kind = "period" /\ date = NoDate
        /\ month = 0 /\ year = 0
        /\ period \in PeriodInputs
        /\ countWorkDays \in Counts /\ countOffDays \in Counts
  /\ pc = "idle" /\ op = "none" /\ result = "none" /\ thrown = "none"
  /\ arg0 = date /\ resultIsArg = FALSE /\ advances = 0
  /\ start = NoDate /\ end = NoDate /\ count = 0 /\ arr = <<>> /\ iters = 0

\* A call of a function that reads its Date argument and returns a fresh value.
Returns(name, value) ==
  /\ pc = "idle"
  /\ op' = name
  /\ result' = value
  /\ arg0' = date
  /\ resultIsArg' = FALSE
  /\ advances' = 0
  /\ UNCHANGED <<date, pc, thrown, inputs, scheduleLocals>>

GetTime == kind = "date" /\ Returns("getTime", getTime(date))

GetNextFriday == kind = "date" /\ Returns("getNextFriday", getNextFriday(date))

FormatDate == kind = "text" /\ Returns("formatDate", formatDate(date))

GetCountWeekendsInMonth ==
  kind = "month" /\ Returns("getCountWeekendsInMonth", getCountWeekendsInMonth(month, year))

GetWeekNumberByDate ==
  kind = "date" /\ Returns("getWeekNumberByDate", getWeekNumberByDate(date))

GetQuarter == kind = "date" /\ Returns("getQuarter", getQuarter(date))

IsLeapYear == kind = "date" /\ Returns("isLeapYear", isLeapYear(date))

\* getNextFridayThe13th, lines 258-260: resultDate is the argument object.
GetNextFridayThe13th ==
  /\ kind = "date" /\ pc = "idle"
  /\ arg0' = date
  /\ date' = setDate(IF getDate(date) > 13 THEN setMonth(date, getMonth(date) + 1)
                     ELSE date, 13)
  /\ pc' = "f13_loop"
  /\ op' = "getNextFridayThe13th"
  /\ result' = "none"
  /\ resultIsArg' = FALSE
  /\ advances' = 0
  /\ UNCHANGED <<thrown, inputs, scheduleLocals>>

F13Advance_SameMonth ==
  /\ pc = "f13_loop"
  /\ getDay(date) # 5
  /\ advances < MaxAdvance
  /\ date' = setMonth(date, getMonth(date))
  /\ advances' = advances + 1
  /\ UNCHANGED <<pc, op, result, thrown, arg0, resultIsArg, inputs, scheduleLocals>>

\* One iteration of the while loop, lines 261-263.
F13Advance ==
  /\ pc = "f13_loop"
  /\ getDay(date) # 5
  /\ advances < MaxAdvance
  /\ date' = setMonth(date, getMonth(date) + 1)
  /\ advances' = advances + 1
  /\ UNCHANGED <<pc, op, result, thrown, arg0, resultIsArg, inputs, scheduleLocals>>

\* The loop test fails: return resultDate, line 264.
F13Return ==
  /\ pc = "f13_loop"
  /\ getDay(date) = 5
  /\ result' = date
  /\ resultIsArg' = TRUE
  /\ pc' = "idle"
  /\ UNCHANGED <<date, op, thrown, arg0, advances, inputs, scheduleLocals>>

\* getWorkSchedule, lines 304-317.
GetWorkSchedule ==
  /\ kind = "period" /\ pc = "idle"
  /\ arr' = <<>>
  /\ start' = ParsePeriodDate(period.start)
  /\ end' = ParsePeriodDate(period.end)
  /\ count' = 0
  /\ iters' = 0
  /\ pc' = "ws_loop"
  /\ op' = "getWorkSchedule"
  /\ result' = "none"
  /\ UNCHANGED <<date, thrown, arg0, resultIsArg, advances, inputs>>

WSIterate_OffAfterExtraDay ==
  /\ pc = "ws_loop"
  /\ TimeLE(start, end)
  /\ iters < MaxIter
  /\ iters' = iters + 1
  /\ IF count > countWorkDays
       THEN /\ start' = AddMs(start, millisecondsInDay * countOffDays)
            /\ count' = 0
            /\ arr' = arr
       ELSE /\ arr' = Append(arr, ScheduleEntry(start))
            /\ count' = count + 1
            /\ start' = AddMs(start, millisecondsInDay)
  /\ UNCHANGED <<date, pc, op, result, thrown, arg0, resultIsArg, advances, end, inputs>>

\* One iteration of the while loop, lines 318-336.
WSIterate ==
  /\ pc = "ws_loop"
  /\ TimeLE(start, end)
  /\ iters < MaxIter
  /\ iters' = iters + 1
  /\ IF count = countWorkDays
       THEN /\ start' = AddMs(start, millisecondsInDay * countOffDays)
            /\ count' = 0
            /\ arr' = arr
       ELSE /\ arr' = Append(arr, ScheduleEntry(start))
            /\ count' = count + 1
            /\ start' = AddMs(start, millisecondsInDay)
  /\ UNCHANGED <<date, pc, op, result, thrown, arg0, resultIsArg, advances, end, inputs>>

\* The loop test fails: return arr, line 337.
WSReturn ==
  /\ pc = "ws_loop"
  /\ ~TimeLE(start, end)
  /\ result' = arr
  /\ pc' = "idle"
  /\ UNCHANGED <<date, op, thrown, arg0, resultIsArg, advances, start, end, count,
                 arr, iters, inputs>>

Next ==
  \/ GetTime
  \/ GetNextFriday
  \/ FormatDate
  \/ GetCountWeekendsInMonth
  \/ GetWeekNumberByDate
  \/ GetQuarter
  \/ IsLeapYear
  \/ GetNextFridayThe13th
  \/ F13Advance
  \/ F13Return
  \/ GetWorkSchedule
  \/ WSIterate
  \/ WSReturn

Spec == Init /\ [][Next]_vars

\* Calls of getNextFridayThe13th alone, on calendar dates (local midnight).  A
\* call in progress keeps executing: the loop's step and the return are fair.
InitF13 == Init /\ kind = "date" /\ date.ms = 0

NextF13 ==
  \/ GetNextFridayThe13th
  \/ F13Advance
  \/ F13Return

SpecF13 ==
  InitF13 /\ [][NextF13]_vars /\ WF_vars(F13Advance) /\ WF_vars(F13Return)

\* ------------------------------------------------------ reference notions
\* ISO-8601 week number of a day: the week (Monday..Sunday) belongs to the
\* year of its Thursday, and weeks of a year are numbered from 1.
IsoWeekOf(dayNo) ==
  LET mondayBased == (dayNo + 3) % 7
      thursday    == dayNo - mondayBased + 3
      isoYear     == CivilFromDays(thursday).year
  IN  ((thursday - MakeDay(isoYear, 0, 1)) \div 7) + 1

IsFriday(dayNo) == (dayNo + 4) % 7 = 5
IsWeekend(dayNo) == (dayNo + 4) % 7 \in {0, 6}

\* The 13th from which the search for d starts, and the first Friday the 13th
\* at or after it.
SearchStart13(d) ==
  LET c == CivilFromDays(d.day)
  IN  IF c.date <= 13 THEN MakeDay(c.year, c.month, 13)
      ELSE MakeDay(c.year, c.month + 1, 13)

EarliestFriday13(d) ==
  LET c  == CivilFromDays(SearchStart13(d))
      ks == {k \in 0..MaxAdvance : IsFriday(MakeDay(c.year, c.month + k, 13))}
      k0 == CHOOSE k \in ks : \A j \in ks : k <= j
  IN  MakeDay(c.year, c.month + k0, 13)

\* The first Friday strictly after a day.
NextFridayAfter(dayNo) == CHOOSE x \in (dayNo + 1)..(dayNo + 7) : IsFriday(x)

\* The offsets i (in days from the period's start) of the working days.
RECURSIVE WorkOffsets(_, _, _, _)
WorkOffsets(i, last, w, o) ==
  IF i > last THEN <<>>
  ELSE (IF i % (w + o) < w THEN <<i>> ELSE <<>>) \o WorkOffsets(i + 1, last, w, o)

PeriodStartDay == ParsePeriodDate(period.start).day
PeriodEndDay == ParsePeriodDate(period.end).day

DateFunctions ==
  {"getTime", "getNextFriday", "getWeekNumberByDate", "getNextFridayThe13th",
   "getQuarter", "isLeapYear"}

\* ------------------------------------------------------------- claims

\* C1: for every calendar date d, getWeekNumberByDate(d) is the ISO-8601 week
\* number of d (weeks start on Monday, week 1 holds the first Thursday).
C1_WeekNumberIsIso ==
  (op = "getWeekNumberByDate" /\ arg0.ms = 0) => result = IsoWeekOf(arg0.day)

\* C2: for every calendar date d, getWeekNumberByDate(d) lies in 1..53.
C2_WeekNumberInRange ==
  (op = "getWeekNumberByDate" /\ arg0.ms = 0) => result \in 1..53

\* C3: getNextFridayThe13th(d) returns the earliest Friday the 13th that is not
\* before the search start (the 13th of d's month when d's date is <= 13, the
\* 13th of the following month otherwise).
C3_EarliestFriday13 ==
  (op = "getNextFridayThe13th" /\ pc = "idle") => result.day = EarliestFriday13(arg0)

\* C4: getCountWeekendsInMonth(month, year) is the number of Saturdays and
\* Sundays of that month, counted day by day.
C4_WeekendCount ==
  op = "getCountWeekendsInMonth" =>
    result = Cardinality({x \in MakeDay(year, month - 1, 1)..(MakeDay(year, month, 1) - 1) :
                            IsWeekend(x)})

C4_Witness ==
  /\ op = "getCountWeekendsInMonth"
  /\ month = 2
  /\ MakeDay(year, 2, 1) - MakeDay(year, 1, 1) = 29
  /\ getDay(NewDate(year, 1, 1)) = 0
  /\ result = 9

\* C5: for start <= end and countWorkDays, countOffDays >= 1, getWorkSchedule
\* returns, in strictly increasing order and without duplicates, exactly the
\* dates start+i <= end with i mod (countWorkDays + countOffDays) < countWorkDays.
C5_Schedule ==
  (/\ op = "getWorkSchedule" /\ pc = "idle"
   /\ PeriodStartDay <= PeriodEndDay
   /\ countWorkDays >= 1 /\ countOffDays >= 1)
  => LET offs == WorkOffsets(0, PeriodEndDay - PeriodStartDay, countWorkDays, countOffDays)
     IN  /\ iters < MaxIter
         /\ Len(result) = Len(offs)
         /\ \A j \in 1..Len(offs) : result[j] = DMYText(PeriodStartDay + offs[j])
         /\ \A j \in 1..(Len(result) - 1) :
              ParsePeriodDate(result[j]).day < ParsePeriodDate(result[j + 1]).day
         /\ Len(result) >= 1 /\ result[1] = period.start
         /\ ParsePeriodDate(result[Len(result)]).day <= PeriodEndDay

C5_Witness ==
  /\ op = "getWorkSchedule" /\ pc = "idle"
  /\ countWorkDays = 2 /\ countOffDays = 3
  /\ PeriodEndDay - PeriodStartDay = 7
  /\ Len(result) = 4
  /\ getMonth(ParsePeriodDate(result[1])) # getMonth(ParsePeriodDate(result[4]))

\* C6: getWorkSchedule rejects a non-positive countWorkDays or countOffDays
\* with an InvalidArgument error, without running its loop or returning.
C6_RejectsNonPositive ==
  (op = "getWorkSchedule" /\ (countWorkDays <= 0 \/ countOffDays <= 0))
  => (thrown = "InvalidArgument" /\ pc = "idle" /\ iters = 0 /\ result = "none")

\* C7: formatDate renders the hour by the 12-hour convention: 0 as 12 AM,
\* 1..11 unchanged AM, 12 as 12 PM, 13..23 as h-12 PM.
C7_TwelveHourClock ==
  op = "formatDate" =>
    LET h == getHours(arg0)
    IN  /\ ToNumber(result.hour) = (IF h % 12 = 0 THEN 12 ELSE h % 12)
        /\ ToNumber(result.hour) \in 1..12
        /\ result.option = (IF h < 12 THEN <<"A", "M">> ELSE <<"P", "M">>)

\* C8 (as stated): getNextFriday returns the instant at 00:00 of the first
\* Friday strictly after the input's calendar date, for any time of day.
C8_MidnightOfNextFriday ==
  op = "getNextFriday" => result = [day |-> NextFridayAfter(arg0.day), ms |-> 0]

\* C8 (amended): getNextFriday returns the instant a whole number of days
\* (1..7 times 86400000 ms) after the input, at the input's own time of day,
\* on the first Friday strictly after the input's calendar date; 7 days ahead
\* when the input is a Friday.
C8_SameTimeOnNextFriday ==
  op = "getNextFriday" =>
    /\ result = [day |-> NextFridayAfter(arg0.day), ms |-> arg0.ms]
    /\ result.day - arg0.day \in 1..7
    /\ (getDay(arg0) = 5 <=> result.day - arg0.day = 7)

C8_Witness ==
  /\ op = "getNextFriday"
  /\ getDay(arg0) = 6
  /\ arg0.ms # 0
  /\ result.day = arg0.day + 6

\* C9: every function that receives a Date leaves the caller's Date denoting
\* the same instant, and a returned Date is a value distinct from the argument.
C9_ArgumentUntouched ==
  (pc = "idle" /\ op \in DateFunctions) => (date = arg0 /\ ~resultIsArg)

\* C10: the search loop of getNextFridayThe13th terminates: at every loop test
\* the candidate is the 13th of a month, and unless it is a Friday (the loop
\* ends and the function returns) fewer than 14 advances of one month have
\* been made; so the loop ends after at most 14 advances, on a Friday the 13th.
C10_SearchTerminates ==
  /\ advances <= 14
  /\ pc = "f13_loop" =>
       /\ getDate(date) = 13
       /\ (getDay(date) = 5 \/ advances < 14)
  /\ (pc = "idle" /\ op = "getNextFridayThe13th") =>
       (getDate(result) = 13 /\ getDay(result) = 5)

\* C10, as a liveness property of SpecF13: a call in its loop returns.
C10_EventuallyReturns ==
  (pc = "f13_loop") ~> (pc = "idle" /\ op = "getNextFridayThe13th" /\ getDay(result) = 5)

C10_Witness ==
  /\ pc = "idle" /\ op = "getNextFridayThe13th"
  /\ advances = 13
  /\ getDay(result) = 5

====
